---- MODULE Spec2Model ----
(***************************************************************************)
(* State-machine model of the ixgbe user-space driver                      *)
(* (src/src/driver/ixgbe.rs): the RX/TX descriptor-ring data path, the     *)
(* packet-buffer ownership it moves around, and the device bring-up.       *)
(*                                                                         *)
(* Ring sizes, the clean batch and the pool size are the program's         *)
(* constants scaled down (512 -> 4, 32 -> 2, 4096 -> 8) so that wrap-       *)
(* around, a full ring, multi-batch cleaning and pool exhaustion are all    *)
(* reached by the model checker; every operator takes the ring size from    *)
(* the queue's num_entries field, as the code does.                         *)
(*                                                                         *)
(* A 32-bit register value is modelled as the set of its set bit            *)
(* positions: a | b is union, a & !b is set difference.                     *)
(***************************************************************************)
EXTENDS Integers, Sequences, FiniteSets, TLC

\* ---------------------------------------------------------------- bounds
\* Frames the NIC delivers on the RX queue during one run.
MaxFrames == 5
\* Largest num_bufs argument of rx_batch.
MaxRxBatch == 2
\* Longest packet list handed to tx_batch.
MaxTxBatch == 2
\* Frames the NIC delivers during one run of the forwarding loop.
FwdFrames == 9

\* ------------------------------------------------------ program constants
NUM_RX_QUEUE_ENTRIES == 4
NUM_TX_QUEUE_ENTRIES == 4
TX_CLEAN_BATCH == 2
\* the literal 4096 of init_rx's mempool_size
MEMPOOL_MIN_SIZE == 8
\* thread::sleep(Duration::from_millis(100)) at the end of ixgbe_rx_batch
RX_BATCH_SLEEP_MS == 100

\* ----------------------------------------------------------- bit helpers
RECURSIVE BitAnd(_, _)
BitAnd(a, b) ==
    IF a = 0 \/ b = 0 THEN 0
    ELSE (IF a % 2 = 1 /\ b % 2 = 1 THEN 1 ELSE 0) + 2 * BitAnd(a \div 2, b \div 2)

Min(a, b) == IF a <= b THEN a ELSE b

wrap_ring_off_by_one(index, ring_size) == BitAnd(index + 2, ring_size - 1)

\* const fn wrap_ring(index, ring_size) = (index + 1) & (ring_size - 1)
wrap_ring(index, ring_size) == BitAnd(index + 1, ring_size - 1)

\* mempool_size of init_rx
mempool_size ==
    IF NUM_RX_QUEUE_ENTRIES + NUM_TX_QUEUE_ENTRIES < MEMPOOL_MIN_SIZE
    THEN MEMPOOL_MIN_SIZE
    ELSE NUM_RX_QUEUE_ENTRIES + NUM_TX_QUEUE_ENTRIES

Bufs == 0 .. (mempool_size - 1)

\* ------------------------------------------------ Mempool and Packet
\* Mempool::allocate: indices 0..num_bufs pushed onto free_stack
Mempool_allocate(num_bufs) == [i \in 1 .. num_bufs |-> i - 1]

\* Mempool::pkt_buf_alloc: pops the top of free_stack (caller checks non-empty)
pkt_buf_alloc_top(free) == free[Len(free)]
pkt_buf_alloc_rest(free) == SubSeq(free, 1, Len(free) - 1)

\* Mempool free: pushes the index back
pkt_buf_free(free, buf) == Append(free, buf)

\* Packet::new(addr, len, pool, mempool_entry); frame is the data found in
\* the buffer, which identifies the packet
Packet_new(entry, data) == [buf |-> entry, frame |-> data]

\* Drop for Packet: returns buf to the pool's free stack
RECURSIVE drop_packets(_, _)
drop_packets(free, pkts) ==
    IF pkts = <<>> THEN free
    ELSE drop_packets(pkt_buf_free(free, Head(pkts).buf), Tail(pkts))

\* ------------------------------------------------------------- state
VARIABLES
    free_stack,        \* Mempool.free_stack of the RX queue's pool
    bufmem,            \* buffer index -> frame whose data the buffer holds (0: none)
    rx_queue,          \* IxgbeRxQueue: num_entries, rx_index, mempool_entries
    rx_desc,           \* RX descriptor ring (DMA memory shared with the NIC)
    tx_queue,          \* IxgbeTxQueue: num_entries, clean_index, tx_index, queue
    tx_desc,           \* TX descriptor ring
    regs,              \* device registers RDT, RDH, TDT, TDH of queue 0
    held,              \* live Packets owned by the caller
    arrived,           \* frames the NIC has completed on the RX ring so far
    rx_log,            \* frames yielded by rx_batch, in order
    tx_log,            \* frames accepted by tx_batch, in order
    wire,              \* what the NIC transmitted: descriptor slot, packet, data
    lastCall,          \* observation of the last driver call
    panicked,          \* the process has aborted (panic!)
    \* --- device bring-up (IxgbeDevice::init, reset_and_init)
    cfg,               \* the call init(pci_addr, num_rx_queues, num_tx_queues) and the build
    ipc,               \* the step init is at
    qi,                \* loop index of the queue-start loops
    hw,                \* device registers as software reads them
    enable_req,        \* queue-enable requests the device has not yet honoured
    irx,               \* IxgbeDevice.rx_queues
    itx,               \* IxgbeDevice.tx_queues
    link,              \* locals of wait_for_link: speed, max_wait
    trace,             \* bring-up steps completed, in order
    plog               \* the set_promisc calls made: enabled, FCTRL before and after

dvars == <<free_stack, bufmem, rx_queue, rx_desc, tx_queue, tx_desc, regs, held,
           arrived, rx_log, tx_log, wire, lastCall, panicked>>

ivars == <<cfg, ipc, qi, hw, enable_req, irx, itx, link, trace, plog>>

vars == <<dvars, ivars>>

NoBuf == -1

\* --------------------------------------------------- start_rx_queue
\* write_volatile of pkt_addr and of hdr_addr = 0 into a descriptor: the second
\* write zeroes the quadword that holds the status bits
rx_arm_desc_addr_only(old, buf) == [old EXCEPT !.addr = buf]

rx_arm_desc(old, buf) == [addr |-> buf, dd |-> FALSE, eop |-> FALSE]

\* Arms descriptor i with the i-th buffer popped from the pool.
RECURSIVE rx_fill(_, _)
rx_fill(st, i) ==
    IF i = st.n THEN st
    ELSE LET buf == pkt_buf_alloc_top(st.free) IN
         rx_fill([st EXCEPT !.free = pkt_buf_alloc_rest(st.free),
                            !.desc = [@ EXCEPT ![i] = rx_arm_desc(@, buf)],
                            !.entries = Append(@, buf)],
                 i + 1)

\* descriptor ring after memset(.., 0xff): every status bit reads as set
rx_desc_ff(n) == [i \in 0 .. n - 1 |-> [addr |-> NoBuf, dd |-> TRUE, eop |-> TRUE]]
tx_desc_ff(n) == [i \in 0 .. n - 1 |-> [addr |-> NoBuf, dd |-> TRUE, pkt |-> 0]]

started_rx ==
    rx_fill([n |-> NUM_RX_QUEUE_ENTRIES, free |-> Mempool_allocate(mempool_size),
             desc |-> rx_desc_ff(NUM_RX_QUEUE_ENTRIES), entries |-> <<>>], 0)

\* mempool_entries is a Vec indexed from 0
entry_at(entries, i) == entries[i + 1]
entry_set(entries, i, b) == [entries EXCEPT ![i + 1] = b]

NoCall == [op |-> "none"]

\* State after init(pci_addr, 1, 1) has returned.
DataInit ==
    /\ free_stack = started_rx.free
    /\ bufmem = [b \in Bufs |-> 0]
    /\ rx_queue = [num_entries |-> NUM_RX_QUEUE_ENTRIES, rx_index |-> 0,
                   mempool_entries |-> started_rx.entries]
    /\ rx_desc = started_rx.desc
    /\ tx_queue = [num_entries |-> NUM_RX_QUEUE_ENTRIES, clean_index |-> 0,
                   tx_index |-> 0, queue |-> <<>>]
    /\ tx_desc = tx_desc_ff(NUM_TX_QUEUE_ENTRIES)
    /\ regs = [RDH |-> 0, RDT |-> NUM_RX_QUEUE_ENTRIES - 1, TDH |-> 0, TDT |-> 0]
    /\ held = {}
    /\ arrived = 0
    /\ rx_log = <<>>
    /\ tx_log = <<>>
    /\ wire = <<>>
    /\ lastCall = NoCall
    /\ panicked = FALSE

\* ------------------------------------------------------------ the NIC
\* The NIC fills the descriptor at RDH while RDH # RDT: DMAs the frame into the
\* buffer the descriptor names and writes the descriptor back (the write-back
\* overwrites pkt_addr), with DD and, for a frame that fits one buffer, EOP.
NicRxComplete(limit) ==
    /\ UNCHANGED ivars
    /\ ~panicked
    /\ arrived < limit
    /\ regs.RDH # regs.RDT
    /\ \E eop \in BOOLEAN :
         LET d == rx_desc[regs.RDH] IN
         /\ bufmem' = IF d.addr = NoBuf THEN bufmem
                      ELSE [bufmem EXCEPT ![d.addr] = arrived + 1]
         /\ rx_desc' = [rx_desc EXCEPT ![regs.RDH] =
                            [addr |-> NoBuf, dd |-> TRUE, eop |-> eop]]
    /\ arrived' = arrived + 1
    /\ regs' = [regs EXCEPT !.RDH = (regs.RDH + 1) % NUM_RX_QUEUE_ENTRIES]
    /\ UNCHANGED <<free_stack, rx_queue, tx_queue, tx_desc, held, rx_log, tx_log,
                   wire, lastCall, panicked>>

\* The NIC transmits the descriptor at TDH while TDH # TDT: reads the buffer
\* the descriptor names and writes DD back (RS is set in every descriptor).
NicTxComplete ==
    /\ UNCHANGED ivars
    /\ ~panicked
    /\ regs.TDH # regs.TDT
    /\ LET d == tx_desc[regs.TDH] IN
       /\ wire' = Append(wire, [slot |-> regs.TDH, pkt |-> d.pkt,
                                data |-> IF d.addr = NoBuf THEN 0 ELSE bufmem[d.addr]])
       /\ tx_desc' = [tx_desc EXCEPT ![regs.TDH] = [d EXCEPT !.dd = TRUE]]
    /\ regs' = [regs EXCEPT !.TDH = (regs.TDH + 1) % NUM_TX_QUEUE_ENTRIES]
    /\ UNCHANGED <<free_stack, bufmem, rx_queue, rx_desc, tx_queue, held, arrived,
                   rx_log, tx_log, lastCall, panicked>>

\* ------------------------------------------------------ ixgbe_rx_batch
\* let mut rx_index = 0; let mut last_rx_index = rx_index;
rx_initial_last_index(queue_rx_index) == 0

\* the entry the slot keeps after a packet was made of its buffer
rx_refill_keep_old(old, buf) == old
rx_refill_entry(old, buf) == buf

\* the value written to RDT: set_reg32(IXGBE_RDT(queue_id), last_rx_index)
rx_tail_value_head(last_rx_index, rx_index) == rx_index

rx_tail_value(last_rx_index, rx_index) == last_rx_index

\* one pass of `for i in 0..num_bufs`; left counts the iterations still to run
RECURSIVE rx_loop(_, _)
rx_loop(st, left) ==
    IF left = 0 THEN st
    ELSE LET d == st.desc[st.rx_index] IN
         IF ~d.dd THEN st                                   \* else { break }
         ELSE IF ~d.eop THEN [st EXCEPT !.panic = TRUE,     \* panic!("increase buffer size ..")
                                        !.why = "eop_clear"]
         ELSE LET mempool_entry == entry_at(st.entries, st.rx_index)
                  p == Packet_new(mempool_entry, st.mem[mempool_entry])
              IN IF st.free = <<>>                           \* pkt_buf_alloc fails
                 THEN [st EXCEPT !.panic = TRUE, !.why = "pool_exhausted"]
                 ELSE LET buf == pkt_buf_alloc_top(st.free) IN
                      rx_loop([st EXCEPT
                                 !.packets = Append(@, p),
                                 !.free = pkt_buf_alloc_rest(@),
                                 !.desc = [@ EXCEPT ![st.rx_index] = rx_arm_desc(@, buf)],
                                 !.entries = entry_set(@, st.rx_index,
                                                       rx_refill_entry(mempool_entry, buf)),
                                 !.last_rx_index = st.rx_index,
                                 !.rx_index = wrap_ring(st.rx_index, st.n)],
                              left - 1)

ixgbe_rx_batch(num_bufs) ==
    rx_loop([n |-> rx_queue.num_entries, rx_index |-> rx_queue.rx_index,
             last_rx_index |-> rx_initial_last_index(rx_queue.rx_index),
             entries |-> rx_queue.mempool_entries, desc |-> rx_desc,
             free |-> free_stack, mem |-> bufmem,
             packets |-> <<>>, panic |-> FALSE, why |-> "none"],
            num_bufs)

Range(s) == {s[i] : i \in 1 .. Len(s)}

RECURSIVE frames_of(_)
frames_of(pkts) == IF pkts = <<>> THEN <<>> ELSE <<Head(pkts).frame>> \o frames_of(Tail(pkts))

RxBatch(num_bufs) ==
    /\ UNCHANGED ivars
    /\ ~panicked
    /\ LET r == ixgbe_rx_batch(num_bufs)
           tail_write == r.rx_index # r.last_rx_index
       IN IF r.panic
          THEN /\ panicked' = TRUE
               /\ lastCall' = [op |-> "panic", in |-> "rx_batch", why |-> r.why]
               /\ UNCHANGED <<free_stack, bufmem, rx_queue, rx_desc, tx_queue, tx_desc,
                              regs, held, arrived, rx_log, tx_log, wire>>
          ELSE /\ free_stack' = r.free
               /\ rx_desc' = r.desc
               /\ rx_queue' = [rx_queue EXCEPT
                                 !.mempool_entries = r.entries,
                                 !.rx_index = IF tail_write THEN r.rx_index ELSE @]
               /\ regs' = IF tail_write
                          THEN [regs EXCEPT !.RDT = rx_tail_value(r.last_rx_index, r.rx_index)]
                          ELSE regs
               /\ held' = held \cup Range(r.packets)
               /\ rx_log' = rx_log \o frames_of(r.packets)
               /\ lastCall' = [op |-> "rx_batch", arg |-> num_bufs, ret |-> r.packets,
                               writes |-> IF tail_write
                                          THEN << [reg |-> "RDT",
                                                   val |-> rx_tail_value(r.last_rx_index,
                                                                         r.rx_index)] >>
                                          ELSE <<>>,
                               slept_ms |-> RX_BATCH_SLEEP_MS,
                               pre_index |-> rx_queue.rx_index,
                               pre_dd |-> rx_desc[rx_queue.rx_index].dd,
                               pre_rdt |-> regs.RDT,
                               post_index |-> rx_queue'.rx_index]
               /\ UNCHANGED <<bufmem, tx_queue, tx_desc, arrived, tx_log, wire, panicked>>

\* ------------------------------------------------------ ixgbe_tx_batch
\* how many packets one successful cleaning step pops: `for _ in 0..cleanable`
tx_clean_pops(cleanable) == cleanable

\* the descriptor whose status the cleaning reads:
\* cleanup_to = clean_index + TX_CLEAN_BATCH - 1, minus num_entries if beyond
tx_cleanup_to_next(clean_index, n) ==
    IF clean_index + TX_CLEAN_BATCH >= n THEN clean_index + TX_CLEAN_BATCH - n
    ELSE clean_index + TX_CLEAN_BATCH

tx_cleanup_to(clean_index, n) ==
    IF clean_index + TX_CLEAN_BATCH - 1 >= n THEN clean_index + TX_CLEAN_BATCH - 1 - n
    ELSE clean_index + TX_CLEAN_BATCH - 1

\* the cleaning loop; st.cur_index is queue.tx_index throughout; st.reads
\* lists the status reads made
RECURSIVE tx_clean(_)
tx_clean(st) ==
    LET diff == st.cur_index - st.clean_index
        cleanable == IF diff < 0 THEN st.n + diff ELSE diff
    IN IF cleanable < TX_CLEAN_BATCH THEN st
       ELSE LET cleanup_to == tx_cleanup_to(st.clean_index, st.n)
                read == [slot |-> cleanup_to, clean_index |-> st.clean_index,
                         tx_index |-> st.cur_index, dd |-> st.desc[cleanup_to].dd]
            IN IF st.desc[cleanup_to].dd
               THEN LET k == Min(tx_clean_pops(cleanable), Len(st.queue)) IN
                    tx_clean([st EXCEPT
                                !.queue = SubSeq(@, k + 1, Len(@)),
                                !.free = drop_packets(@, SubSeq(st.queue, 1, k)),
                                !.clean_index = wrap_ring(cleanup_to, st.n),
                                !.steps = @ + 1,
                                !.reads = Append(@, read)])
               ELSE [st EXCEPT !.reads = Append(@, read)]

\* what becomes of the packets still in the input when the ring is full:
\* the Vec was moved into the call, so returning drops them
tx_full_leak(free, pkts) == free

tx_full_free(free, pkts) == drop_packets(free, pkts)

\* the slot the descriptor is written to: cur_index, while queue.tx_index has
\* already been advanced
tx_slot_advanced(cur_index, tx_index) == tx_index

tx_slot(cur_index, tx_index) == cur_index

\* the `for packet in packets` loop
RECURSIVE tx_enqueue(_, _)
tx_enqueue(st, pkts) ==
    IF pkts = <<>> THEN st
    ELSE LET packet == Head(pkts)
             next_index == wrap_ring(st.cur_index, st.n)
         IN IF st.clean_index = next_index
            THEN [st EXCEPT !.full = TRUE,                  \* return sent
                            !.free = tx_full_free(@, pkts)]
            ELSE tx_enqueue([st EXCEPT
                               !.tx_index = wrap_ring(@, st.n),
                               !.desc = [@ EXCEPT ![tx_slot(st.cur_index, wrap_ring(st.tx_index, st.n))] =
                                           [addr |-> packet.buf, dd |-> FALSE,
                                            pkt |-> packet.frame]],
                               !.queue = Append(@, packet),
                               !.cur_index = next_index,
                               !.sent = @ + 1],
                            Tail(pkts))

ixgbe_tx_clean ==
    tx_clean([n |-> tx_queue.num_entries, clean_index |-> tx_queue.clean_index,
              cur_index |-> tx_queue.tx_index, queue |-> tx_queue.queue,
              free |-> free_stack, desc |-> tx_desc, steps |-> 0, reads |-> <<>>])

ixgbe_tx_batch(pkts) ==
    LET c == ixgbe_tx_clean IN
    tx_enqueue([n |-> tx_queue.num_entries, clean_index |-> c.clean_index,
                cur_index |-> tx_queue.tx_index, tx_index |-> tx_queue.tx_index,
                queue |-> c.queue, free |-> c.free, desc |-> tx_desc,
                sent |-> 0, full |-> FALSE], pkts)

\* lists of distinct packets the caller owns, up to MaxTxBatch long
RECURSIVE PacketLists(_, _)
PacketLists(S, k) ==
    IF k = 0 THEN {<<>>}
    ELSE {<<>>} \cup {<<p>> \o rest : p \in S, rest \in PacketLists(S, k - 1)}

Distinct(s) == \A i, j \in 1 .. Len(s) : i # j => s[i] # s[j]

TxBatch(pkts) ==
    /\ UNCHANGED ivars
    /\ ~panicked
    /\ Distinct(pkts)
    /\ LET c == ixgbe_tx_clean
           r == ixgbe_tx_batch(pkts)
       IN /\ free_stack' = r.free
          /\ tx_desc' = r.desc
          /\ tx_queue' = [tx_queue EXCEPT !.clean_index = r.clean_index,
                                          !.tx_index = r.tx_index,
                                          !.queue = r.queue]
          /\ regs' = IF r.full THEN regs ELSE [regs EXCEPT !.TDT = r.tx_index]
          /\ held' = held \ Range(pkts)
          /\ tx_log' = tx_log \o frames_of(SubSeq(pkts, 1, r.sent))
          /\ lastCall' = [op |-> "tx_batch", arg |-> pkts, ret |-> r.sent,
                          writes |-> IF r.full THEN <<>>
                                     ELSE << [reg |-> "TDT", val |-> r.tx_index] >>,
                          slept_ms |-> 0,
                          clean_steps |-> c.steps,
                          clean_reads |-> c.reads,
                          inflight_clean |-> Len(c.queue),
                          inflight_pre |-> Len(tx_queue.queue),
                          inflight_post |-> Len(r.queue),
                          descs_written |-> Cardinality({i \in DOMAIN tx_desc :
                                                           r.desc[i] # tx_desc[i]}),
                          free_post |-> Range(r.free),
                          held_post |-> held']
    /\ UNCHANGED <<bufmem, rx_queue, rx_desc, arrived, rx_log, wire, panicked>>

\* ------------------------------------------------------- the caller
\* The application drops a packet it owns.
DropPacket(p) ==
    /\ UNCHANGED ivars
    /\ ~panicked
    /\ p \in held
    /\ free_stack' = drop_packets(free_stack, <<p>>)
    /\ held' = held \ {p}
    /\ UNCHANGED <<bufmem, rx_queue, rx_desc, tx_queue, tx_desc, regs, arrived,
                   rx_log, tx_log, wire, lastCall, panicked>>

Next ==
    \/ NicRxComplete(MaxFrames)
    \/ NicTxComplete
    \/ \E num_bufs \in 1 .. MaxRxBatch : RxBatch(num_bufs)
    \/ \E pkts \in PacketLists(held, MaxTxBatch) : TxBatch(pkts)
    \/ \E p \in held : DropPacket(p)

\* The bring-up variables play no part in the data path.
BringUpParked ==
    /\ cfg = [num_rx_queues |-> 1, num_tx_queues |-> 1,
              entries |-> NUM_RX_QUEUE_ENTRIES, pci_ok |-> TRUE]
    /\ ipc = "returned"
    /\ qi = 0
    /\ hw = [r \in {} |-> {}]
    /\ enable_req = {}
    /\ irx = <<>>
    /\ itx = <<>>
    /\ link = [speed |-> 0, max_wait |-> 0]
    /\ trace = <<>>
    /\ plog = <<>>

Init == DataInit /\ BringUpParked

Spec == Init /\ [][Next]_vars

\* ------------------------------------------------- a forwarding caller
\* The application loop `tx_batch(0, rx_batch(0, B))`: every list rx_batch
\* returns is handed to tx_batch at once, and the caller drops nothing itself.
FwdRx(num_bufs) == lastCall.op # "rx_batch" /\ RxBatch(num_bufs)
FwdTx == lastCall.op = "rx_batch" /\ TxBatch(lastCall.ret)

NextFwd ==
    \/ NicRxComplete(FwdFrames)
    \/ NicTxComplete
    \/ \E num_bufs \in 1 .. MaxRxBatch : FwdRx(num_bufs)
    \/ FwdTx

SpecFwd == Init /\ [][NextFwd]_vars

\* =================================================== device bring-up
\* at most MAX_QUEUES queues of each direction (scaled down from 64)
MAX_QUEUES == 2
\* wait_for_link: max_wait (scaled down from 10000 ms) and poll_interval
LINK_MAX_WAIT_MS == 30
LINK_POLL_INTERVAL_MS == 10
\* set_promisc calls explored after init has returned
MaxPromiscCalls == 2

\* register bits, as sets of bit positions
IXGBE_EIMC_ALL == 0 .. 30                  \* 0x7FFFFFFF
IXGBE_CTRL_RST_MASK == {3, 26}             \* CTRL.LRST | CTRL.RST
IXGBE_EEC_ARD == {9}
IXGBE_RDRXCTL_DMAIDONE == {3}
IXGBE_RDRXCTL_CRCSTRIP == {1}
IXGBE_AUTOC_LMS_MASK == {13, 14, 15}
IXGBE_AUTOC_LMS_10G_SERIAL == {13, 14}
IXGBE_AUTOC_10G_PMA_PMD_MASK == {7, 8}
IXGBE_AUTOC_10G_XAUI == {}
IXGBE_AUTOC_AN_RESTART == {12}
IXGBE_FCTRL_SBP == {1}
IXGBE_FCTRL_MPE == {8}
IXGBE_FCTRL_UPE == {9}
IXGBE_FCTRL_BAM == {10}
IXGBE_RXCTRL_RXEN == {0}
IXGBE_HLREG0_TXCRCEN == {0}
IXGBE_HLREG0_RXCRCSTRP == {1}
IXGBE_HLREG0_TXPADEN == {10}
IXGBE_CTRL_EXT_NS_DIS == {16}
IXGBE_DMATXCTL_TE == {0}
IXGBE_RXDCTL_ENABLE == {25}
IXGBE_TXDCTL_ENABLE == {25}
IXGBE_LINKS_UP == {30}
IXGBE_LINKS_SPEED_82599 == {28, 29}
IXGBE_LINKS_SPEED_100_82599 == {28}
IXGBE_LINKS_SPEED_1G_82599 == {29}
IXGBE_LINKS_SPEED_10G_82599 == {28, 29}
\* TXDCTL thresholds: 36 | (8 << 8) | (4 << 16), inside 0x3F | 0x3F << 8 | 0x3F << 16
TXDCTL_THRESH_MASK == (0 .. 5) \cup (8 .. 13) \cup (16 .. 21)
TXDCTL_THRESH == {2, 5, 11, 18}

QueueIds == 0 .. MAX_QUEUES - 1

\* self.set_reg32(reg, self.get_reg32(reg) | flags)
set_flags32(current, flags) == current \cup flags

clear_flags32_keep_only(current, flags) == current \cap flags

\* self.set_reg32(reg, self.get_reg32(reg) & !flags)
clear_flags32(current, flags) == current \ flags

\* wait_set_reg32 / wait_clear_reg32: the condition that ends the polling loop
wait_set_done_exact(current, value) == current = value

wait_set_done(current, value) == (current \cap value) = value
wait_clear_done(current, value) == (current \cap value) = {}

\* set_promisc: the new value of FCTRL
set_promisc(fctrl, enabled) ==
    IF enabled THEN set_flags32(fctrl, IXGBE_FCTRL_MPE \cup IXGBE_FCTRL_UPE)
    ELSE clear_flags32(fctrl, IXGBE_FCTRL_MPE \cup IXGBE_FCTRL_UPE)

get_link_speed(links) ==
    IF links \cap IXGBE_LINKS_UP = {} THEN 0
    ELSE LET speed == links \cap IXGBE_LINKS_SPEED_82599 IN
         IF speed = IXGBE_LINKS_SPEED_100_82599 THEN 100
         ELSE IF speed = IXGBE_LINKS_SPEED_1G_82599 THEN 1000
         ELSE IF speed = IXGBE_LINKS_SPEED_10G_82599 THEN 10000
         ELSE 0

\* queue.num_entries & (queue.num_entries - 1) != 0
not_power_of_two(num_entries) == BitAnd(num_entries, num_entries - 1) # 0

\* start_tx_queue only prints when the check fails
start_tx_queue_check_panics(num_entries) == FALSE
\* start_rx_queue panics when the check fails
start_rx_queue_check_panics(num_entries) == not_power_of_two(num_entries)

\* if num_rx_queues > MAX_QUEUES || num_tx_queues > MAX_QUEUES { panic!(..) }
too_many_queues(c) == c.num_rx_queues > MAX_QUEUES \/ c.num_tx_queues > MAX_QUEUES

\* the order of the statements of reset_and_init: the step that follows `step`
\* (the two queue-start loops stay at their step until the last queue)
reset_and_init_link_early(step) ==
    CASE step = "eimc" -> "rst"
      [] step = "rst" -> "wait_rst"
      [] step = "wait_rst" -> "eimc_again"
      [] step = "eimc_again" -> "wait_eec"
      [] step = "wait_eec" -> "init_link"
      [] step = "init_link" -> "wait_dma"
      [] step = "wait_dma" -> "reset_stats"
      [] step = "reset_stats" -> "init_rx"
      [] step = "init_rx" -> "init_tx"
      [] step = "init_tx" -> "start_rx"
      [] step = "start_rx" -> "start_tx"
      [] step = "start_tx" -> "set_promisc"
      [] step = "set_promisc" -> "wait_for_link"
      [] step = "wait_for_link" -> "returned"

reset_and_init_next(step) ==
    CASE step = "eimc" -> "rst"
      [] step = "rst" -> "wait_rst"
      [] step = "wait_rst" -> "eimc_again"
      [] step = "eimc_again" -> "wait_eec"
      [] step = "wait_eec" -> "wait_dma"
      [] step = "wait_dma" -> "init_link"
      [] step = "init_link" -> "reset_stats"
      [] step = "reset_stats" -> "init_rx"
      [] step = "init_rx" -> "init_tx"
      [] step = "init_tx" -> "start_rx"
      [] step = "start_rx" -> "start_tx"
      [] step = "start_tx" -> "set_promisc"
      [] step = "set_promisc" -> "wait_for_link"
      [] step = "wait_for_link" -> "returned"

\* registers after power-up, FCTRL holding any value
HwReset(fctrl) ==
    [EIMC |-> {}, CTRL |-> {}, EEC |-> {}, RDRXCTL |-> {}, AUTOC |-> {},
     FCTRL |-> fctrl, RXCTRL |-> {}, HLREG0 |-> {}, CTRL_EXT |-> {},
     DMATXCTL |-> {}, LINKS |-> {},
     RXDCTL |-> [q \in QueueIds |-> {}], TXDCTL |-> [q \in QueueIds |-> {}],
     RDH |-> [q \in QueueIds |-> 0], RDT |-> [q \in QueueIds |-> 0],
     TDH |-> [q \in QueueIds |-> 0], TDT |-> [q \in QueueIds |-> 0]]

FctrlBits == IXGBE_FCTRL_SBP \cup IXGBE_FCTRL_MPE \cup IXGBE_FCTRL_UPE \cup IXGBE_FCTRL_BAM

\* The call init(pci_addr, num_rx_queues, num_tx_queues) is about to start,
\* in a build whose NUM_RX_QUEUE_ENTRIES is cfg.entries.
BringUpInit ==
    /\ cfg \in [num_rx_queues : 0 .. MAX_QUEUES + 1, num_tx_queues : 0 .. MAX_QUEUES + 1,
                entries : {NUM_RX_QUEUE_ENTRIES - 1, NUM_RX_QUEUE_ENTRIES},
                pci_ok : BOOLEAN]
    /\ ipc = "init"
    /\ qi = 0
    /\ \E f \in SUBSET FctrlBits : hw = HwReset(f)
    /\ enable_req = {}
    /\ irx = <<>>
    /\ itx = <<>>
    /\ link = [speed |-> 0, max_wait |-> 0]
    /\ trace = <<>>
    /\ plog = <<>>

Step(name) == trace' = Append(trace, name)
Goto(step) == ipc' = reset_and_init_next(step)

\* IxgbeDevice::init up to the call of reset_and_init
InitEntry ==
    /\ UNCHANGED dvars
    /\ ipc = "init"
    /\ ipc' = IF too_many_queues(cfg) THEN "panicked"
              ELSE IF ~cfg.pci_ok THEN "failed"          \* pci_map(pci_addr)?
              ELSE "eimc"
    /\ UNCHANGED <<cfg, qi, hw, enable_req, irx, itx, link, trace, plog>>

\* ixgbe.set_reg32(IXGBE_EIMC, 0x7FFFFFFF), before and after the reset
MaskInterrupts ==
    /\ UNCHANGED dvars
    /\ ipc \in {"eimc", "eimc_again"}
    /\ hw' = [hw EXCEPT !.EIMC = IXGBE_EIMC_ALL]
    /\ Step("eimc") /\ Goto(ipc)
    /\ UNCHANGED <<cfg, qi, enable_req, irx, itx, link, plog>>

\* ixgbe.set_reg32(IXGBE_CTRL, IXGBE_CTRL_RST_MASK)
GlobalReset ==
    /\ UNCHANGED dvars
    /\ ipc = "rst"
    /\ hw' = [hw EXCEPT !.CTRL = IXGBE_CTRL_RST_MASK]
    /\ Step("rst") /\ Goto(ipc)
    /\ UNCHANGED <<cfg, qi, enable_req, irx, itx, link, plog>>

\* wait_clear_reg32(IXGBE_CTRL, IXGBE_CTRL_RST_MASK); sleep 10 ms
WaitReset ==
    /\ UNCHANGED dvars
    /\ ipc = "wait_rst"
    /\ wait_clear_done(hw.CTRL, IXGBE_CTRL_RST_MASK)
    /\ Step("wait_rst") /\ Goto(ipc)
    /\ UNCHANGED <<cfg, qi, hw, enable_req, irx, itx, link, plog>>

\* wait_set_reg32(IXGBE_EEC, IXGBE_EEC_ARD)
WaitEeprom ==
    /\ UNCHANGED dvars
    /\ ipc = "wait_eec"
    /\ wait_set_done(hw.EEC, IXGBE_EEC_ARD)
    /\ Step("wait_eec") /\ Goto(ipc)
    /\ UNCHANGED <<cfg, qi, hw, enable_req, irx, itx, link, plog>>

\* wait_set_reg32(IXGBE_RDRXCTL, IXGBE_RDRXCTL_DMAIDONE)
WaitDmaInit ==
    /\ UNCHANGED dvars
    /\ ipc = "wait_dma"
    /\ wait_set_done(hw.RDRXCTL, IXGBE_RDRXCTL_DMAIDONE)
    /\ Step("wait_dma") /\ Goto(ipc)
    /\ UNCHANGED <<cfg, qi, hw, enable_req, irx, itx, link, plog>>

\* init_link
init_link(autoc) ==
    LET a1 == (autoc \ IXGBE_AUTOC_LMS_MASK) \cup IXGBE_AUTOC_LMS_10G_SERIAL
        a2 == (a1 \ IXGBE_AUTOC_10G_PMA_PMD_MASK) \cup IXGBE_AUTOC_10G_XAUI
    IN set_flags32(a2, IXGBE_AUTOC_AN_RESTART)

InitLink ==
    /\ UNCHANGED dvars
    /\ ipc = "init_link"
    /\ hw' = [hw EXCEPT !.AUTOC = init_link(@)]
    /\ Step("init_link") /\ Goto(ipc)
    /\ UNCHANGED <<cfg, qi, enable_req, irx, itx, link, plog>>

\* reset_stats: reads the counters and discards them
ResetStats ==
    /\ UNCHANGED dvars
    /\ ipc = "reset_stats"
    /\ Step("reset_stats") /\ Goto(ipc)
    /\ UNCHANGED <<cfg, qi, hw, enable_req, irx, itx, link, plog>>

\* the IxgbeRxQueue init_rx pushes for each queue, with its own pool
new_rx_queue(entries) ==
    [num_entries |-> entries, rx_index |-> 0, mempool_entries |-> <<>>,
     free |-> Mempool_allocate(mempool_size), mem |-> [b \in Bufs |-> 0],
     desc |-> rx_desc_ff(entries)]

\* the IxgbeTxQueue init_tx pushes: num_entries is NUM_RX_QUEUE_ENTRIES
new_tx_queue(entries) ==
    [num_entries |-> entries, clean_index |-> 0, tx_index |-> 0, queue |-> <<>>,
     desc |-> tx_desc_ff(NUM_TX_QUEUE_ENTRIES)]

\* init_rx
InitRx ==
    /\ UNCHANGED dvars
    /\ ipc = "init_rx"
    /\ hw' = [hw EXCEPT
                !.RXCTRL = set_flags32(clear_flags32(@, IXGBE_RXCTRL_RXEN), IXGBE_RXCTRL_RXEN),
                !.HLREG0 = set_flags32(@, IXGBE_HLREG0_RXCRCSTRP),
                !.RDRXCTL = set_flags32(@, IXGBE_RDRXCTL_CRCSTRIP),
                !.FCTRL = set_flags32(@, IXGBE_FCTRL_BAM),
                !.RDH = [q \in QueueIds |-> IF q < cfg.num_rx_queues THEN 0 ELSE @[q]],
                !.RDT = [q \in QueueIds |-> IF q < cfg.num_rx_queues THEN 0 ELSE @[q]],
                !.CTRL_EXT = set_flags32(@, IXGBE_CTRL_EXT_NS_DIS)]
    /\ irx' = [q \in 1 .. cfg.num_rx_queues |-> new_rx_queue(cfg.entries)]
    /\ Step("init_rx") /\ Goto(ipc)
    /\ UNCHANGED <<cfg, qi, enable_req, itx, link, plog>>

\* init_tx
InitTx ==
    /\ UNCHANGED dvars
    /\ ipc = "init_tx"
    /\ hw' = [hw EXCEPT
                !.HLREG0 = set_flags32(@, IXGBE_HLREG0_TXCRCEN \cup IXGBE_HLREG0_TXPADEN),
                !.TXDCTL = [q \in QueueIds |->
                              IF q < cfg.num_tx_queues
                              THEN (@[q] \ TXDCTL_THRESH_MASK) \cup TXDCTL_THRESH
                              ELSE @[q]],
                !.DMATXCTL = IXGBE_DMATXCTL_TE]
    /\ itx' = [q \in 1 .. cfg.num_tx_queues |-> new_tx_queue(cfg.entries)]
    /\ Step("init_tx") /\ Goto(ipc)
    /\ qi' = 0
    /\ UNCHANGED <<cfg, enable_req, irx, link, plog>>

\* the register a write leaves behind: the device shows a queue's ENABLE bit
\* only once it has enabled the queue
dev_write_dctl(old, value, enable) == (value \ enable) \cup (old \cap enable)

\* start_rx_queue up to the write of RXDCTL.ENABLE, or the end of the loop
\* `for i in 0..ixgbe.num_rx_queues`
StartRxQueue ==
    /\ UNCHANGED dvars
    /\ ipc = "start_rx"
    /\ IF qi < cfg.num_rx_queues
       THEN LET queue == irx[qi + 1] IN
            IF start_rx_queue_check_panics(queue.num_entries)
            THEN /\ ipc' = "panicked"
                 /\ UNCHANGED <<qi, hw, enable_req, irx, trace>>
            ELSE LET f == rx_fill([n |-> queue.num_entries, free |-> queue.free,
                                   desc |-> queue.desc, entries |-> queue.mempool_entries], 0)
                 IN /\ irx' = [irx EXCEPT ![qi + 1] =
                                  [queue EXCEPT !.free = f.free, !.desc = f.desc,
                                                !.mempool_entries = f.entries]]
                    /\ hw' = [hw EXCEPT !.RXDCTL[qi] =
                                 dev_write_dctl(@, set_flags32(@, IXGBE_RXDCTL_ENABLE),
                                                IXGBE_RXDCTL_ENABLE)]
                    /\ enable_req' = enable_req \cup {<<"RXDCTL", qi>>}
                    /\ ipc' = "wait_rxen"
                    /\ UNCHANGED <<qi, trace>>
       ELSE /\ Goto(ipc) /\ qi' = 0
            /\ UNCHANGED <<hw, enable_req, irx, trace>>
    /\ UNCHANGED <<cfg, itx, link, plog>>

\* start_rx_queue from wait_set_reg32(RXDCTL, ENABLE) to its end
StartRxQueueEnabled ==
    /\ UNCHANGED dvars
    /\ ipc = "wait_rxen"
    /\ wait_set_done(hw.RXDCTL[qi], IXGBE_RXDCTL_ENABLE)
    /\ hw' = [hw EXCEPT !.RDH[qi] = 0, !.RDT[qi] = irx[qi + 1].num_entries - 1]
    /\ Step("start_rx")
    /\ qi' = qi + 1
    /\ ipc' = "start_rx"
    /\ UNCHANGED <<cfg, enable_req, irx, itx, link, plog>>

\* start_tx_queue up to the write of TXDCTL.ENABLE, or the end of the loop
\* `for i in 0..ixgbe.num_tx_queues`
StartTxQueue ==
    /\ UNCHANGED dvars
    /\ ipc = "start_tx"
    /\ IF qi < cfg.num_tx_queues
       THEN IF start_tx_queue_check_panics(itx[qi + 1].num_entries)
            THEN /\ ipc' = "panicked"
                 /\ UNCHANGED <<qi, hw, enable_req>>
            ELSE /\ hw' = [hw EXCEPT !.TDH[qi] = 0, !.TDT[qi] = 0,
                                     !.TXDCTL[qi] =
                                        dev_write_dctl(@, set_flags32(@, IXGBE_TXDCTL_ENABLE),
                                                       IXGBE_TXDCTL_ENABLE)]
                 /\ enable_req' = enable_req \cup {<<"TXDCTL", qi>>}
                 /\ ipc' = "wait_txen"
                 /\ UNCHANGED qi
       ELSE /\ Goto(ipc) /\ qi' = 0
            /\ UNCHANGED <<hw, enable_req>>
    /\ UNCHANGED <<cfg, irx, itx, link, trace, plog>>

\* start_tx_queue: wait_set_reg32(TXDCTL, ENABLE)
StartTxQueueEnabled ==
    /\ UNCHANGED dvars
    /\ ipc = "wait_txen"
    /\ wait_set_done(hw.TXDCTL[qi], IXGBE_TXDCTL_ENABLE)
    /\ Step("start_tx")
    /\ qi' = qi + 1
    /\ ipc' = "start_tx"
    /\ UNCHANGED <<cfg, hw, enable_req, irx, itx, link, plog>>

\* ixgbe.set_promisc(true), then the first lines of wait_for_link: the link
\* speed is read once, before the loop
PromiscAndLinkRead ==
    /\ UNCHANGED dvars
    /\ ipc = "set_promisc"
    /\ hw' = [hw EXCEPT !.FCTRL = set_promisc(@, TRUE)]
    /\ link' = [speed |-> get_link_speed(hw.LINKS), max_wait |-> LINK_MAX_WAIT_MS]
    /\ plog' = Append(plog, [enabled |-> TRUE, pre |-> hw.FCTRL, post |-> hw'.FCTRL])
    /\ Step("set_promisc") /\ Goto(ipc)
    /\ UNCHANGED <<cfg, qi, enable_req, irx, itx>>

\* one iteration of `while speed == 0 && max_wait > 0`, or the loop's exit
WaitForLink ==
    /\ UNCHANGED dvars
    /\ ipc = "wait_for_link"
    /\ IF link.speed = 0 /\ link.max_wait > 0
       THEN /\ link' = [link EXCEPT !.max_wait = @ - LINK_POLL_INTERVAL_MS]
            /\ UNCHANGED <<ipc, trace>>
       ELSE /\ Step("wait_for_link") /\ Goto(ipc)
            /\ UNCHANGED link
    /\ UNCHANGED <<cfg, qi, hw, enable_req, irx, itx, plog>>

\* set_promisc(enabled) on the device init returned
SetPromisc(enabled) ==
    /\ UNCHANGED dvars
    /\ ipc = "returned"
    /\ Len(plog) < 1 + MaxPromiscCalls
    /\ hw' = [hw EXCEPT !.FCTRL = set_promisc(@, enabled)]
    /\ plog' = Append(plog, [enabled |-> enabled, pre |-> hw.FCTRL, post |-> hw'.FCTRL])
    /\ UNCHANGED <<cfg, ipc, qi, enable_req, irx, itx, link, trace>>

\* --- the device
DevResetDone ==
    /\ UNCHANGED dvars
    /\ hw.CTRL \cap IXGBE_CTRL_RST_MASK # {}
    /\ hw' = [hw EXCEPT !.CTRL = @ \ IXGBE_CTRL_RST_MASK]
    /\ UNCHANGED <<cfg, ipc, qi, enable_req, irx, itx, link, trace, plog>>

DevEepromDone ==
    /\ UNCHANGED dvars
    /\ ipc \notin {"init", "panicked", "failed"}
    /\ hw.EEC \cap IXGBE_EEC_ARD = {}
    /\ hw' = [hw EXCEPT !.EEC = @ \cup IXGBE_EEC_ARD]
    /\ UNCHANGED <<cfg, ipc, qi, enable_req, irx, itx, link, trace, plog>>

DevDmaInitDone ==
    /\ UNCHANGED dvars
    /\ ipc \notin {"init", "panicked", "failed"}
    /\ hw.RDRXCTL \cap IXGBE_RDRXCTL_DMAIDONE = {}
    /\ hw' = [hw EXCEPT !.RDRXCTL = @ \cup IXGBE_RDRXCTL_DMAIDONE]
    /\ UNCHANGED <<cfg, ipc, qi, enable_req, irx, itx, link, trace, plog>>

DevQueueEnable ==
    /\ UNCHANGED dvars
    /\ \E r \in enable_req :
         /\ hw' = IF r[1] = "RXDCTL"
                  THEN [hw EXCEPT !.RXDCTL[r[2]] = @ \cup IXGBE_RXDCTL_ENABLE]
                  ELSE [hw EXCEPT !.TXDCTL[r[2]] = @ \cup IXGBE_TXDCTL_ENABLE]
         /\ enable_req' = enable_req \ {r}
    /\ UNCHANGED <<cfg, ipc, qi, irx, itx, link, trace, plog>>

DevLinkUp ==
    /\ UNCHANGED dvars
    /\ ipc \notin {"init", "panicked", "failed", "returned"}
    /\ hw.LINKS = {}
    /\ hw' = [hw EXCEPT !.LINKS = IXGBE_LINKS_UP \cup IXGBE_LINKS_SPEED_10G_82599]
    /\ UNCHANGED <<cfg, ipc, qi, enable_req, irx, itx, link, trace, plog>>

NextInit ==
    \/ InitEntry
    \/ MaskInterrupts
    \/ GlobalReset
    \/ WaitReset
    \/ WaitEeprom
    \/ WaitDmaInit
    \/ InitLink
    \/ ResetStats
    \/ InitRx
    \/ InitTx
    \/ StartRxQueue
    \/ StartRxQueueEnabled
    \/ StartTxQueue
    \/ StartTxQueueEnabled
    \/ PromiscAndLinkRead
    \/ WaitForLink
    \/ \E enabled \in BOOLEAN : SetPromisc(enabled)
    \/ DevResetDone
    \/ DevEepromDone
    \/ DevDmaInitDone
    \/ DevQueueEnable
    \/ DevLinkUp

InitInit == DataInit /\ BringUpInit

SpecInit == InitInit /\ [][NextInit]_vars

\* The thread running init keeps taking its next statement; a polling loop
\* leaves once the awaited value is shown.
InitStep ==
    \/ InitEntry
    \/ MaskInterrupts
    \/ GlobalReset
    \/ WaitReset
    \/ WaitEeprom
    \/ WaitDmaInit
    \/ InitLink
    \/ ResetStats
    \/ InitRx
    \/ InitTx
    \/ StartRxQueue
    \/ StartRxQueueEnabled
    \/ StartTxQueue
    \/ StartTxQueueEnabled
    \/ PromiscAndLinkRead
    \/ WaitForLink

\* The device completes the reset, the EEPROM auto-read, the DMA init and
\* every queue enable it was asked for; the link may stay down for ever.
SpecInitLive ==
    /\ InitInit /\ [][NextInit]_vars
    /\ WF_vars(InitStep)
    /\ WF_vars(DevResetDone)
    /\ WF_vars(DevEepromDone)
    /\ WF_vars(DevDmaInitDone)
    /\ WF_vars(DevQueueEnable)

\* ============================================ the data path, per queue
\* rx_batch and tx_batch on the device init has returned: the queues are
\* ixgbe.rx_queues (irx) and ixgbe.tx_queues (itx), every RX queue with its
\* own pool, and the tail registers are RDT(queue_id) and TDT(queue_id).
\* A device value d is the record of irx, itx and hw.

\* frames the NIC delivers in a run with several queues
MqFrames == 3

\* ixgbe.rx_queues[queue_id as usize]: the Vec is indexed from 0
rx_queue_first(queue_id) == 1

rx_queue_slot(queue_id) == queue_id + 1

tx_queue_slot(queue_id) == queue_id + 1

\* Packet::new(addr, len, &queue.mempool, mempool_entry): the packet keeps a
\* reference to the pool of the queue it was received on (pool i is the pool
\* of RX queue i)
RECURSIVE packets_of_pool(_, _)
packets_of_pool(pkts, pool) ==
    IF pkts = <<>> THEN <<>>
    ELSE << [buf |-> Head(pkts).buf, frame |-> Head(pkts).frame, pool |-> pool] >>
         \o packets_of_pool(Tail(pkts), pool)

\* Drop for Packet: the buffer goes back to the free stack of its own pool
RECURSIVE drop_to_pools(_, _)
drop_to_pools(rxqs, pkts) ==
    IF pkts = <<>> THEN rxqs
    ELSE LET p == Head(pkts) IN
         drop_to_pools([rxqs EXCEPT ![p.pool + 1].free = pkt_buf_free(@, p.buf)],
                       Tail(pkts))

\* IxyDriver::rx_batch -> ixgbe_rx_batch(self, queue_id, num_packets)
rx_batch(d, queue_id, num_packets) ==
    LET slot == rx_queue_slot(queue_id)
        queue == d.irx[slot]
        r == rx_loop([n |-> queue.num_entries, rx_index |-> queue.rx_index,
                      last_rx_index |-> rx_initial_last_index(queue.rx_index),
                      entries |-> queue.mempool_entries, desc |-> queue.desc,
                      free |-> queue.free, mem |-> queue.mem,
                      packets |-> <<>>, panic |-> FALSE, why |-> "none"], num_packets)
        tail_write == r.rx_index # r.last_rx_index
    IN IF r.panic
       THEN [panic |-> TRUE, ret |-> <<>>, dropped |-> <<>>,
             irx |-> d.irx, itx |-> d.itx, hw |-> d.hw]
       ELSE [panic |-> FALSE,
             ret |-> packets_of_pool(r.packets, queue_id),
             dropped |-> <<>>,
             irx |-> [d.irx EXCEPT ![slot] =
                        [queue EXCEPT !.mempool_entries = r.entries,
                                      !.desc = r.desc,
                                      !.free = r.free,
                                      !.rx_index = IF tail_write THEN r.rx_index ELSE @]],
             itx |-> d.itx,
             hw |-> IF tail_write
                    THEN [d.hw EXCEPT !.RDT[queue_id] =
                            rx_tail_value(r.last_rx_index, r.rx_index)]
                    ELSE d.hw]

\* IxyDriver::tx_batch -> ixgbe_tx_batch(self, queue_id, packets); the packets
\* the call drops are those the cleaning popped, then those left in the input
\* when the ring was full
tx_batch(d, queue_id, packets) ==
    LET slot == tx_queue_slot(queue_id)
        queue == d.itx[slot]
        c == tx_clean([n |-> queue.num_entries, clean_index |-> queue.clean_index,
                       cur_index |-> queue.tx_index, queue |-> queue.queue,
                       free |-> <<>>, desc |-> queue.desc, steps |-> 0,
                       reads |-> <<>>])
        r == tx_enqueue([n |-> queue.num_entries, clean_index |-> c.clean_index,
                         cur_index |-> queue.tx_index, tx_index |-> queue.tx_index,
                         queue |-> c.queue, free |-> <<>>, desc |-> queue.desc,
                         sent |-> 0, full |-> FALSE], packets)
        popped == SubSeq(queue.queue, 1, Len(queue.queue) - Len(c.queue))
        rest == IF r.full THEN SubSeq(packets, r.sent + 1, Len(packets)) ELSE <<>>
    IN [panic |-> FALSE,
        ret |-> r.sent,
        dropped |-> popped \o rest,
        irx |-> drop_to_pools(d.irx, popped \o rest),
        itx |-> [d.itx EXCEPT ![slot] =
                   [queue EXCEPT !.clean_index = r.clean_index,
                                 !.tx_index = r.tx_index,
                                 !.queue = r.queue,
                                 !.desc = r.desc]],
        hw |-> IF r.full THEN d.hw ELSE [d.hw EXCEPT !.TDT[queue_id] = r.tx_index]]

\* the device as the program holds it
device == [irx |-> irx, itx |-> itx, hw |-> hw]

\* what no per-queue step touches: the single-queue view and init's locals
MqRest ==
    UNCHANGED <<free_stack, bufmem, rx_queue, rx_desc, tx_queue, tx_desc, regs,
                rx_log, tx_log, wire, lastCall, cfg, ipc, qi, enable_req, link,
                trace, plog>>

\* the NIC completes a frame on RX queue q (a frame that fits one buffer)
NicRxCompleteQ(q) ==
    /\ ipc = "returned" /\ ~panicked
    /\ arrived < MqFrames
    /\ hw.RDH[q] # hw.RDT[q]
    /\ LET slot == q + 1
           d == irx[slot].desc[hw.RDH[q]]
       IN irx' = [irx EXCEPT
                    ![slot].mem = IF d.addr = NoBuf THEN @
                                  ELSE [@ EXCEPT ![d.addr] = arrived + 1],
                    ![slot].desc[hw.RDH[q]] = [addr |-> NoBuf, dd |-> TRUE, eop |-> TRUE]]
    /\ hw' = [hw EXCEPT !.RDH[q] = (@ + 1) % NUM_RX_QUEUE_ENTRIES]
    /\ arrived' = arrived + 1
    /\ UNCHANGED <<itx, held, panicked>>
    /\ MqRest

\* the NIC transmits the descriptor at TDH(q) and writes DD back
NicTxCompleteQ(q) ==
    /\ ipc = "returned" /\ ~panicked
    /\ hw.TDH[q] # hw.TDT[q]
    /\ itx' = [itx EXCEPT ![q + 1].desc[hw.TDH[q]].dd = TRUE]
    /\ hw' = [hw EXCEPT !.TDH[q] = (@ + 1) % NUM_TX_QUEUE_ENTRIES]
    /\ UNCHANGED <<irx, held, arrived, panicked>>
    /\ MqRest

RxBatchQ(q, num_packets) ==
    /\ ipc = "returned" /\ ~panicked
    /\ LET r == rx_batch(device, q, num_packets) IN
       /\ irx' = r.irx /\ itx' = r.itx /\ hw' = r.hw
       /\ panicked' = r.panic
       /\ held' = held \cup Range(r.ret)
    /\ UNCHANGED arrived
    /\ MqRest

TxBatchQ(q, packets) ==
    /\ ipc = "returned" /\ ~panicked
    /\ Distinct(packets)
    /\ LET r == tx_batch(device, q, packets) IN
       /\ irx' = r.irx /\ itx' = r.itx /\ hw' = r.hw
    /\ held' = held \ Range(packets)
    /\ UNCHANGED <<arrived, panicked>>
    /\ MqRest

\* the application drops a packet it owns
DropPacketQ(p) ==
    /\ ipc = "returned" /\ ~panicked
    /\ p \in held
    /\ irx' = drop_to_pools(irx, <<p>>)
    /\ held' = held \ {p}
    /\ UNCHANGED <<itx, hw, arrived, panicked>>
    /\ MqRest

\* init(pci_addr, MAX_QUEUES, MAX_QUEUES), then the data path on the device
\* it returned; the link stays down
MqInit ==
    /\ InitInit
    /\ cfg = [num_rx_queues |-> MAX_QUEUES, num_tx_queues |-> MAX_QUEUES,
              entries |-> NUM_RX_QUEUE_ENTRIES, pci_ok |-> TRUE]
    /\ hw.FCTRL = {}

NextMq ==
    \/ InitStep
    \/ DevResetDone
    \/ DevEepromDone
    \/ DevDmaInitDone
    \/ DevQueueEnable
    \/ \E q \in QueueIds : NicRxCompleteQ(q)
    \/ \E q \in QueueIds : NicTxCompleteQ(q)
    \/ \E q \in QueueIds, n \in 1 .. MaxRxBatch : RxBatchQ(q, n)
    \/ \E q \in QueueIds, pkts \in PacketLists(held, MaxTxBatch) : TxBatchQ(q, pkts)
    \/ \E p \in held : DropPacketQ(p)

SpecMq == MqInit /\ [][NextMq]_vars

\* --------------------------------------------------------------- helpers
Count(s, x) == Cardinality({i \in DOMAIN s : s[i] = x})
CountBuf(pkts, b) == Cardinality({i \in DOMAIN pkts : pkts[i].buf = b})
Owners(b) ==
    Count(free_stack, b) + Count(rx_queue.mempool_entries, b)
    + CountBuf(tx_queue.queue, b) + Cardinality({p \in held : p.buf = b})

IsTx == lastCall.op = "tx_batch"
IsRx == lastCall.op = "rx_batch"

\* ---------------------------------------------------------------- claims

\* C1: tx_batch returns n with 0 <= n <= len(pkts); n is the number of
\* descriptors written and of packets appended to the in-flight FIFO during the
\* call, and n = min(len(pkts), num_entries - 1 - in-flight count after the
\* cleaning phase).
C1_TxBatchReturn ==
    IsTx =>
      /\ 0 <= lastCall.ret /\ lastCall.ret <= Len(lastCall.arg)
      /\ lastCall.ret = lastCall.descs_written
      /\ lastCall.ret = lastCall.inflight_post - lastCall.inflight_clean
      /\ lastCall.ret = Min(Len(lastCall.arg),
                            tx_queue.num_entries - 1 - lastCall.inflight_clean)

\* C2: when tx_batch accepts only n < len(pkts) packets, the unaccepted ones
\* stay with the caller: after the call they are live packets of the caller,
\* and their buffers are neither in the free stack nor in the in-flight FIFO.
C2_UnacceptedStayWithCaller ==
    (IsTx /\ lastCall.ret < Len(lastCall.arg)) =>
      \A i \in (lastCall.ret + 1) .. Len(lastCall.arg) :
         /\ lastCall.arg[i] \in lastCall.held_post
         /\ lastCall.arg[i].buf \notin lastCall.free_post

\* C3: rx_batch called when the descriptor at rx_index has DD clear returns an
\* empty list, leaves rx_index unchanged and writes nothing to RDT, whatever
\* rx_index is; with no traffic since init RDT still reads num_entries - 1.
C3_IdleRxNoTailWrite ==
    /\ (IsRx /\ ~lastCall.pre_dd) =>
          /\ lastCall.ret = <<>>
          /\ lastCall.post_index = lastCall.pre_index
          /\ lastCall.writes = <<>>
    /\ (arrived = 0 => regs.RDT = rx_queue.num_entries - 1)

\* C4: every buffer index of the pool has exactly one owner: the free stack,
\* one slot of the RX buffer table, one packet of the TX in-flight FIFO, or
\* one live Packet of the caller.
C4_OneOwner == \A b \in Bufs : Owners(b) = 1

\* all four kinds of owner are in use, after the RX ring has wrapped
C4_Witness ==
    /\ held # {} /\ tx_queue.queue # <<>> /\ free_stack # <<>>
    /\ Len(rx_log) > NUM_RX_QUEUE_ENTRIES
    /\ tx_queue.clean_index # 0

\* slots of the RX ring the NIC has completed and rx_batch has not consumed
RxPending == {(rx_queue.rx_index + k) % NUM_RX_QUEUE_ENTRIES :
                k \in 0 .. (arrived - Len(rx_log) - 1)}

\* C5: every descriptor the NIC completes is yielded as exactly one Packet, in
\* completion order, holding the data the NIC wrote into the buffer armed in
\* that descriptor: the frames yielded so far are frames 1, 2, .. in order, and
\* the completed frames not yet yielded are exactly the DD descriptors waiting
\* at rx_index.
C5_RxInOrderOnce ==
    /\ Len(rx_log) <= arrived
    /\ \A i \in 1 .. Len(rx_log) : rx_log[i] = i
    /\ arrived - Len(rx_log) < NUM_RX_QUEUE_ENTRIES
    /\ \A s \in 0 .. NUM_RX_QUEUE_ENTRIES - 1 : rx_desc[s].dd <=> s \in RxPending

\* more frames than the ring has slots were yielded
C5_Witness == Len(rx_log) > NUM_RX_QUEUE_ENTRIES /\ ~panicked

\* C6: accepted packets sit in consecutive descriptor slots in input order,
\* across calls and wrap-around: the NIC transmits slot after slot the packets
\* in the order they were accepted, and the descriptors it has not reached hold
\* the next accepted packets in order.
C6_TxInOrder ==
    /\ Len(wire) <= Len(tx_log)
    /\ \A i \in 1 .. Len(wire) :
          /\ wire[i].pkt = tx_log[i]
          /\ wire[i].slot = (i - 1) % NUM_TX_QUEUE_ENTRIES
    /\ Len(tx_log) - Len(wire) < NUM_TX_QUEUE_ENTRIES
    /\ \A k \in 1 .. (Len(tx_log) - Len(wire)) :
          tx_desc[(Len(wire) + k - 1) % NUM_TX_QUEUE_ENTRIES].pkt = tx_log[Len(wire) + k]
    /\ tx_queue.tx_index = Len(tx_log) % NUM_TX_QUEUE_ENTRIES

\* the NIC has transmitted a packet from a slot it had used before
C6_Witness == Len(wire) > NUM_TX_QUEUE_ENTRIES

\* C8: rx_batch and tx_batch finish in a bounded number of steps and never
\* sleep: rx_batch yields at most max packets, the cleaning loop of tx_batch
\* runs at most num_entries / TX_CLEAN_BATCH steps, and no call sleeps.
C8_FastPathNeverSleeps ==
    /\ IsRx => (Len(lastCall.ret) <= lastCall.arg /\ lastCall.slept_ms = 0)
    /\ IsTx => (lastCall.clean_steps * TX_CLEAN_BATCH <= tx_queue.num_entries
                /\ lastCall.slept_ms = 0)

\* C7: init performs the bring-up in this order, each step finishing before
\* the next starts; no queue is started before RX init and TX init have both
\* completed, and nothing but EIMC and CTRL is programmed before the reset has
\* cleared.
Repeat(name, n) == [i \in 1 .. n |-> name]

BringUpOrder ==
    <<"eimc", "rst", "wait_rst", "eimc", "wait_eec", "wait_dma", "init_link",
      "reset_stats", "init_rx", "init_tx">>
    \o Repeat("start_rx", cfg.num_rx_queues) \o Repeat("start_tx", cfg.num_tx_queues)
    \o <<"set_promisc", "wait_for_link">>

QueueStarted ==
    \/ enable_req # {}
    \/ \E q \in QueueIds : hw.RXDCTL[q] \cap IXGBE_RXDCTL_ENABLE # {}
    \/ \E q \in QueueIds : hw.TXDCTL[q] \cap IXGBE_TXDCTL_ENABLE # {}

ResetCleared == \E i \in 1 .. Len(trace) : trace[i] = "wait_rst"

C7_BringUpOrder ==
    /\ Len(trace) <= Len(BringUpOrder)
    /\ \A i \in 1 .. Len(trace) : trace[i] = BringUpOrder[i]
    /\ ipc = "returned" => trace = BringUpOrder
    /\ QueueStarted =>
          /\ \E i, j \in 1 .. Len(trace) : trace[i] = "init_rx" /\ trace[j] = "init_tx"
          /\ IXGBE_RXCTRL_RXEN \subseteq hw.RXCTRL
          /\ IXGBE_DMATXCTL_TE \subseteq hw.DMATXCTL
    /\ ~ResetCleared =>
          /\ hw.AUTOC = {} /\ hw.RXCTRL = {} /\ hw.HLREG0 = {} /\ hw.DMATXCTL = {}
          /\ hw.CTRL_EXT = {} /\ irx = <<>> /\ itx = <<>> /\ ~QueueStarted

\* init has returned a device with queues of both directions
C7_Witness ==
    ipc = "returned" /\ cfg.num_rx_queues = MAX_QUEUES /\ cfg.num_tx_queues = MAX_QUEUES

\* C9: init fails fatally and never returns a device whenever a queue count
\* exceeds MAX_QUEUES or the num_entries of an RX or TX queue is not a power of
\* two.
BadConfig ==
    \/ too_many_queues(cfg)
    \/ \E i \in DOMAIN irx : not_power_of_two(irx[i].num_entries)
    \/ \E i \in DOMAIN itx : not_power_of_two(itx[i].num_entries)

C9_BadConfigFatal == BadConfig => ipc # "returned"

\* C10: set_promisc(true) leaves FCTRL.MPE and FCTRL.UPE set, set_promisc(true)
\* followed by set_promisc(false) leaves them clear, and every other FCTRL bit
\* keeps the value it had before.
PromiscBits == IXGBE_FCTRL_MPE \cup IXGBE_FCTRL_UPE

C10_PromiscToggle ==
    /\ \A i \in 1 .. Len(plog) :
          /\ plog[i].post \ PromiscBits = plog[i].pre \ PromiscBits
          /\ plog[i].enabled => PromiscBits \subseteq plog[i].post
          /\ (i > 1 /\ plog[i - 1].enabled /\ ~plog[i].enabled) =>
                /\ plog[i].post \cap PromiscBits = {}
                /\ plog[i].post \ PromiscBits = plog[i - 1].pre \ PromiscBits
    /\ plog # <<>> => IXGBE_FCTRL_BAM \subseteq hw.FCTRL

\* set_promisc(true) then set_promisc(false), on an FCTRL with other bits set
C10_Witness ==
    /\ Len(plog) >= 2 /\ plog[1].enabled /\ ~plog[2].enabled
    /\ plog[1].pre \cap PromiscBits # {}
    /\ IXGBE_FCTRL_SBP \subseteq plog[2].post

\* C11: when the free stack is empty as rx_batch needs a replacement buffer
\* for a completed descriptor, the call does not fail fatally: the loop stops
\* early and the completed descriptors stay pending with DD set, every slot of
\* the ring still naming an armed buffer.
C11_PoolExhaustionSoft ==
    /\ ~(lastCall.op = "panic" /\ lastCall.why = "pool_exhausted")
    /\ (IsRx /\ free_stack = <<>> /\ Len(lastCall.ret) < lastCall.arg) =>
          \A s \in 0 .. NUM_RX_QUEUE_ENTRIES - 1 :
             entry_at(rx_queue.mempool_entries, s) \in Bufs

\* the bound of the forwarding scenario: num_bufs - num_entries - TX_inflight_max
FwdPoolFloor == mempool_size - rx_queue.num_entries - (tx_queue.num_entries - 1)

\* C12 as stated: in the forwarding loop the free stack never holds fewer than
\* num_bufs - num_entries - TX_inflight_max buffers, at every state of the run.
C12_FwdPoolFloor == Len(free_stack) >= FwdPoolFloor

\* C12 amended: in the forwarding loop the free stack plus the packets the
\* caller holds between rx_batch and tx_batch (at most B) never number fewer
\* than num_bufs - num_entries - TX_inflight_max, and after every tx_batch,
\* when the caller holds nothing, the free stack alone meets the bound.
C12_FwdPoolFloorWithHeld ==
    /\ Len(free_stack) + Cardinality(held) >= FwdPoolFloor
    /\ Cardinality(held) <= MaxRxBatch
    /\ IsTx => (held = {} /\ Len(free_stack) >= FwdPoolFloor)

\* the bound is met exactly while the caller holds received packets, after
\* the TX ring has wrapped
C12_Witness ==
    /\ IsRx /\ held # {}
    /\ Len(free_stack) + Cardinality(held) = FwdPoolFloor
    /\ Len(tx_log) > NUM_TX_QUEUE_ENTRIES

\* C13: on every return path of tx_batch, the return taken when the ring
\* becomes full in the middle of the input included, TDT has been written with
\* the queue's tx_index, so that every descriptor written during the call lies
\* before TDT.
C13_TailWrittenOnReturn ==
    IsTx =>
      /\ lastCall.writes = << [reg |-> "TDT", val |-> tx_queue.tx_index] >>
      /\ regs.TDT = tx_queue.tx_index

\* C14: after every tx_batch call the length of the in-flight FIFO equals
\* (tx_index - clean_index) mod num_entries.
C14_FifoLenMatchesIndices ==
    IsTx => Len(tx_queue.queue) =
              (tx_queue.tx_index - tx_queue.clean_index) % tx_queue.num_entries

\* descriptor slots the NIC has been handed and has not transmitted yet
TxPendingSlots ==
    {(regs.TDH + k) % NUM_TX_QUEUE_ENTRIES :
       k \in 0 .. ((regs.TDT - regs.TDH) % NUM_TX_QUEUE_ENTRIES) - 1}

\* C15: each successful step of the cleaning phase removes exactly
\* TX_CLEAN_BATCH packets from the in-flight FIFO, so that a buffer goes back
\* to the pool only after the NIC is done with its descriptor: the buffer of
\* every descriptor the NIC has still to transmit belongs to a packet of the
\* FIFO.
C15_CleanStepPopsBatch ==
    /\ IsTx => lastCall.inflight_pre - lastCall.inflight_clean
                 = lastCall.clean_steps * TX_CLEAN_BATCH
    /\ \A s \in TxPendingSlots :
          \E i \in 1 .. Len(tx_queue.queue) : tx_queue.queue[i].buf = tx_desc[s].addr

\* C16: rx_batch(q, max) that consumes k completed descriptors returns exactly
\* k <= max packets, sets rx_index to (old rx_index + k) mod num_entries, inside
\* [0, num_entries), and when k > 0 writes to RDT(q) the last consumed slot,
\* (new rx_index - 1) mod num_entries; after num_entries + 5 packets in total
\* rx_index is 5 (mod num_entries).
C16_RxIndexAndTail ==
    /\ IsRx =>
          LET k == Len(lastCall.ret) IN
          /\ k <= lastCall.arg
          /\ lastCall.post_index = (lastCall.pre_index + k) % rx_queue.num_entries
          /\ rx_queue.rx_index = lastCall.post_index
          /\ k > 0 =>
                /\ lastCall.writes =
                      << [reg |-> "RDT",
                          val |-> (lastCall.post_index - 1) % rx_queue.num_entries] >>
                /\ regs.RDT = (rx_queue.rx_index - 1) % rx_queue.num_entries
    /\ rx_queue.rx_index \in 0 .. rx_queue.num_entries - 1
    /\ rx_queue.rx_index = Len(rx_log) % rx_queue.num_entries
    /\ Len(rx_log) = NUM_RX_QUEUE_ENTRIES + 5 =>
          rx_queue.rx_index = (NUM_RX_QUEUE_ENTRIES + 5) % rx_queue.num_entries

\* num_entries + 5 packets were received, the last call yielding a full batch
C16_Witness ==
    /\ IsRx /\ Len(lastCall.ret) = MaxRxBatch
    /\ Len(rx_log) = NUM_RX_QUEUE_ENTRIES + 5

\* RXDCTL.ENABLE of queue q has been written or is shown by the device
RxEnableWritten(q) ==
    \/ <<"RXDCTL", q>> \in enable_req
    \/ IXGBE_RXDCTL_ENABLE \subseteq hw.RXDCTL[q]

\* C17: for every RX queue, when RXDCTL.ENABLE is set every one of the
\* num_entries descriptors is armed with its own freshly allocated buffer
\* (pairwise distinct indices, recorded in the buffer table, DD clear), and RDT
\* is written to num_entries - 1 only after the enable bit was seen set; no
\* descriptor appears completed.
C17_RxQueueArmedAtEnable ==
    \A q \in QueueIds :
       /\ RxEnableWritten(q) =>
             /\ q + 1 \in DOMAIN irx
             /\ LET queue == irx[q + 1] IN
                /\ Len(queue.mempool_entries) = queue.num_entries
                /\ Distinct(queue.mempool_entries)
                /\ \A i \in 0 .. queue.num_entries - 1 :
                      /\ queue.desc[i].addr = entry_at(queue.mempool_entries, i)
                      /\ ~queue.desc[i].dd
                      /\ Count(queue.free, queue.desc[i].addr) = 0
                /\ Len(queue.free) + queue.num_entries = mempool_size
       /\ hw.RDT[q] # 0 =>
             /\ IXGBE_RXDCTL_ENABLE \subseteq hw.RXDCTL[q]
             /\ hw.RDT[q] = irx[q + 1].num_entries - 1
       /\ (ipc = "returned" /\ q < cfg.num_rx_queues) =>
             hw.RDT[q] = irx[q + 1].num_entries - 1

\* init has returned with every RX queue started and its tail written
C17_Witness ==
    /\ ipc = "returned" /\ cfg.num_rx_queues = MAX_QUEUES
    /\ \A q \in QueueIds : hw.RDT[q] = NUM_RX_QUEUE_ENTRIES - 1 /\ RxEnableWritten(q)

\* C18: the link wait polls the link: every 10 ms iteration of the wait is
\* taken only while the link speed read at that iteration is 0, so the wait
\* stops as soon as a poll reports the link up.
C18_LinkWaitPolls ==
    [][(ipc = "wait_for_link" /\ link'.max_wait < link.max_wait)
         => get_link_speed(hw.LINKS) = 0]_vars

\* a call of init that no check rejects
ValidConfig ==
    /\ ~too_many_queues(cfg) /\ cfg.pci_ok
    /\ cfg.num_rx_queues > 0 => ~not_power_of_two(cfg.entries)

\* every register bit init waits for shows the awaited value
AwaitedBitsReached ==
    /\ wait_clear_done(hw.CTRL, IXGBE_CTRL_RST_MASK)
    /\ wait_set_done(hw.EEC, IXGBE_EEC_ARD)
    /\ wait_set_done(hw.RDRXCTL, IXGBE_RDRXCTL_DMAIDONE)
    /\ \A q \in QueueIds :
          /\ q < cfg.num_rx_queues => wait_set_done(hw.RXDCTL[q], IXGBE_RXDCTL_ENABLE)
          /\ q < cfg.num_tx_queues => wait_set_done(hw.TXDCTL[q], IXGBE_TXDCTL_ENABLE)

\* C19: if the device eventually clears CTRL.RST and sets EEC.ARD,
\* RDRXCTL.DMAIDONE and the ENABLE bit of every configured queue, init
\* eventually returns a device whether or not the link comes up; and init
\* returns only when every one of those bits has reached the awaited value.
C19_InitTerminates ==
    /\ ValidConfig ~> (ipc = "returned")
    /\ [](ipc = "returned" => AwaitedBitsReached)

\* init has returned after the full link wait, the link still down
C19_Witness ==
    /\ ipc = "returned" /\ link.max_wait = 0 /\ hw.LINKS = {}
    /\ cfg.num_rx_queues > 0 /\ cfg.num_tx_queues > 0

\* the data-path calls the application can make in the current state
RxCalls ==
    {[op |-> "rx", q |-> q, n |-> n, pkts |-> <<>>] :
       q \in QueueIds, n \in 1 .. MaxRxBatch}
TxCalls ==
    {[op |-> "tx", q |-> q, n |-> 0, pkts |-> l] :
       q \in QueueIds, l \in {x \in PacketLists(held, MaxTxBatch) : Distinct(x)}}

call(d, c) ==
    IF c.op = "rx" THEN rx_batch(d, c.q, c.n) ELSE tx_batch(d, c.q, c.pkts)

\* the outcome of call c1 followed by call c2
both(d, c1, c2) ==
    LET a == call(d, c1) IN
    IF a.panic THEN [panic |-> TRUE]
    ELSE LET b == call(a, c2) IN
         IF b.panic THEN [panic |-> TRUE]
         ELSE [panic |-> FALSE, irx |-> b.irx, itx |-> b.itx, hw |-> b.hw,
               ret1 |-> a.ret, ret2 |-> b.ret]

\* c2 then c1, reported in the same shape
both_swapped(d, c1, c2) ==
    LET r == both(d, c2, c1) IN
    IF r.panic THEN r
    ELSE [panic |-> FALSE, irx |-> r.irx, itx |-> r.itx, hw |-> r.hw,
          ret1 |-> r.ret2, ret2 |-> r.ret1]

Commute(d, c1, c2) == both(d, c1, c2) = both_swapped(d, c1, c2)

\* two calls that can be made one after the other in either order
Compatible(c1, c2) == Range(c1.pkts) \cap Range(c2.pkts) = {}

\* the pools whose free stack a call touches
PoolsOf(d, c) ==
    IF c.op = "rx" THEN {c.q} ELSE {p.pool : p \in Range(call(d, c).dropped)}

\* rx_batch(q, _) changes only RX queue q and RDT(q)
FrameRx(d, c) ==
    LET a == call(d, c) IN
    /\ a.itx = d.itx
    /\ \A o \in QueueIds \ {c.q} : a.irx[o + 1] = d.irx[o + 1]
    /\ [a.hw EXCEPT !.RDT[c.q] = d.hw.RDT[c.q]] = d.hw
    /\ a.irx[c.q + 1].num_entries = d.irx[c.q + 1].num_entries

\* tx_batch(q, _) changes only TX queue q, TDT(q) and the free stacks of the
\* pools of the packets it drops
FrameTx(d, c) ==
    LET a == call(d, c) IN
    /\ \A o \in QueueIds \ {c.q} : a.itx[o + 1] = d.itx[o + 1]
    /\ [a.hw EXCEPT !.TDT[c.q] = d.hw.TDT[c.q]] = d.hw
    /\ a.itx[c.q + 1].num_entries = d.itx[c.q + 1].num_entries
    /\ \A o \in QueueIds :
          /\ [a.irx[o + 1] EXCEPT !.free = d.irx[o + 1].free] = d.irx[o + 1]
          /\ a.irx[o + 1].free # d.irx[o + 1].free => o \in PoolsOf(d, c)

\* C20 as stated: calls on different queues give the same final state in
\* either order.
C20_QueuesCommute ==
    ipc = "returned" =>
      \A c1 \in RxCalls \cup TxCalls : \A c2 \in RxCalls \cup TxCalls :
         (c1.q # c2.q /\ Compatible(c1, c2)) => Commute(device, c1, c2)

\* C20 amended: rx_batch(q, _) changes only RX queue q (its pool included) and
\* RDT(q); tx_batch(q, _) changes only TX queue q, TDT(q) and the free stacks
\* of the pools that own the packets it drops; and two calls on different
\* queues give the same final state in either order whenever they touch no
\* pool in common.
C20_QueuesFrame ==
    ipc = "returned" =>
      /\ \A c \in RxCalls : FrameRx(device, c)
      /\ \A c \in TxCalls : FrameTx(device, c)
      /\ \A c1 \in RxCalls \cup TxCalls : \A c2 \in RxCalls \cup TxCalls :
            ( /\ c1.op # c2.op \/ c1.q # c2.q
              /\ Compatible(c1, c2)
              /\ PoolsOf(device, c1) \cap PoolsOf(device, c2) = {} )
            => Commute(device, c1, c2)

\* rx_batch on queue 0 yields a packet and tx_batch on queue 1 drops a packet
\* of pool 1: both calls act, on different queues and different pools
C20_Witness ==
    /\ ipc = "returned" /\ ~panicked
    /\ rx_batch(device, 0, 1).ret # <<>>
    /\ LET t == tx_batch(device, 1, <<>>) IN
       t.dropped # <<>> /\ \A i \in 1 .. Len(t.dropped) : t.dropped[i].pool = 1

\* descriptors between clean_index and tx_index
TxInFlight == (tx_queue.tx_index - tx_queue.clean_index) % tx_queue.num_entries

\* C21: the descriptor whose DD bit the cleaning reads lies in the in-flight
\* range [clean_index, tx_index); every descriptor of that range was written by
\* an enqueue since it was last reclaimed, so it holds no 0xFF pattern, and its
\* DD bit is set exactly if the NIC has transmitted this lap's packet;
\* clean_index never passes tx_index, nor what the NIC has completed.
C21_CleanReadsInFlight ==
    /\ IsTx =>
          \A i \in 1 .. Len(lastCall.clean_reads) :
             LET r == lastCall.clean_reads[i] IN
             (r.slot - r.clean_index) % tx_queue.num_entries
                < (r.tx_index - r.clean_index) % tx_queue.num_entries
    /\ TxInFlight <= Len(tx_log)
    /\ Len(tx_log) - TxInFlight <= Len(wire)
    /\ \A k \in 0 .. TxInFlight - 1 :
          LET d == tx_desc[(tx_queue.clean_index + k) % tx_queue.num_entries]
              j == Len(tx_log) - TxInFlight + k + 1
          IN /\ d.addr # NoBuf
             /\ d.pkt = tx_log[j]
             /\ d.dd <=> j <= Len(wire)

\* the cleaning found DD set on a descriptor that is on its second lap, in an
\* in-flight range that wraps around the end of the ring
C21_Witness ==
    /\ IsTx /\ lastCall.clean_steps > 0
    /\ Len(tx_log) > 2 * NUM_TX_QUEUE_ENTRIES
    /\ \E i \in 1 .. Len(lastCall.clean_reads) :
          LET r == lastCall.clean_reads[i] IN r.dd /\ r.tx_index < r.clean_index

====
